---- MODULE Spec2Model ----
(***************************************************************************)
(* Risk Info API (riesgos.py): the fallback fetcher fetch_any, the         *)
(* aggregator fetch_all_risks, the three normalizers and the endpoint      *)
(* api_risk_clean, as one state machine over JSON values.                  *)
(*                                                                         *)
(* JSON / Python values are records of one shape, told apart by k:         *)
(*   "null"  None                                                          *)
(*   "bool"  n = 0 (False) or 1 (True)                                     *)
(*   "num"   a float: big * 2^104 + n / 1000 (n counts thousandths; a      *)
(*           double of magnitude 2^104 or more absorbs any n, so n = 0     *)
(*           whenever big # 0)                                             *)
(*   "str"   text, s = its symbols in order; a symbol is a digit, ".",     *)
(*           "-" or an opaque word                                         *)
(*   "obj"   a dict, o = the function from its keys to their values        *)
(*   "list"  a list, l = its elements in order                             *)
(*   "exc"   not a value: the evaluation raised an exception               *)
(* NaN and the infinities are outside the grid of floats; cancellation of  *)
(* the request (not an Exception) is outside the model.                    *)
(***************************************************************************)
EXTENDS Integers, Sequences, FiniteSets, TLC

NoFields == [x \in {} |-> 0]

V(k, big, n, s, o, l) == [k |-> k, big |-> big, n |-> n, s |-> s, o |-> o, l |-> l]

None == V("null", 0, 0, <<>>, NoFields, <<>>)
Exc == V("exc", 0, 0, <<>>, NoFields, <<>>)
Bool(b) == V("bool", 0, IF b THEN 1 ELSE 0, <<>>, NoFields, <<>>)
Num(n) == V("num", 0, n, <<>>, NoFields, <<>>)
BigNum(b) == V("num", b, 0, <<>>, NoFields, <<>>)
Str(s) == V("str", 0, 0, s, NoFields, <<>>)
Word(w) == Str(<<w>>)
Obj(o) == V("obj", 0, 0, <<>>, o, <<>>)
List(l) == V("list", 0, 0, <<>>, NoFields, l)
EmptyDict == Obj(NoFields)

\* the float of the integer literal i
Int1000(i) == Num(i * 1000)

\* isinstance(v, dict)
IsDict(v) == v.k = "obj"

\* key in d, for a dict d
Has(d, key) == key \in DOMAIN d.o

\* d.get(key, default), for a dict d
Get(d, key, default) == IF Has(d, key) THEN d.o[key] ELSE default

\* d[key] = v on a copy of the dict d
Put(d, key, v) == Obj([x \in (DOMAIN d.o) \cup {key} |-> IF x = key THEN v ELSE d.o[x]])

\* {k: v for k, v in d.items() if k != key}
Without(d, key) == Obj([x \in (DOMAIN d.o) \ {key} |-> d.o[x]])

\* bool(v): None, False, 0, 0.0, "", {} and [] are falsy
Truthy(v) ==
    CASE v.k = "null" -> FALSE
      [] v.k = "bool" -> v.n = 1
      [] v.k = "num" -> v.big # 0 \/ v.n # 0
      [] v.k = "str" -> v.s # <<>>
      [] v.k = "obj" -> DOMAIN v.o # {}
      [] v.k = "list" -> v.l # <<>>
      [] OTHER -> FALSE

\* a or b
Or(a, b) == IF Truthy(a) THEN a ELSE b

\* float comparison and the distance test abs(a - b) < 1e-6
Lt(a, b) == a.big < b.big \/ (a.big = b.big /\ a.n < b.n)
IsZero(a) == a.big = 0 /\ a.n = 0
Abs(i) == IF i < 0 THEN -i ELSE i
Within1e6(a, b) == a.big = b.big /\ Abs(a.n - b.n) * 1000 < 1

(***************************************************************************)
(* float(x) of a text: an optional "-", then digits with at most one "."   *)
(* and at least one digit. An opaque word stands for text that is no       *)
(* number, so any other symbol makes it a ValueError.                      *)
(***************************************************************************)
Digits == <<"0", "1", "2", "3", "4", "5", "6", "7", "8", "9">>
IsDigit(c) == \E d \in 1..10 : Digits[d] = c
DigitVal(c) == (CHOOSE d \in 1..10 : Digits[d] = c) - 1

RECURSIVE DigitsVal(_)
DigitsVal(ds) ==
    IF ds = <<>> THEN 0
    ELSE DigitsVal(SubSeq(ds, 1, Len(ds) - 1)) * 10 + DigitVal(ds[Len(ds)])

Unsigned(s) == IF s # <<>> /\ s[1] = "-" THEN Tail(s) ELSE s
DotPositions(b) == {p \in 1..Len(b) : b[p] = "."}
IsFloatText(s) ==
    LET b == Unsigned(s) IN
    /\ \A p \in 1..Len(b) : IsDigit(b[p]) \/ b[p] = "."
    /\ Cardinality(DotPositions(b)) <= 1
    /\ \E p \in 1..Len(b) : IsDigit(b[p])

\* the value in thousandths; digits past the third decimal are below the grid
FloatOfText(s) ==
    LET b == Unsigned(s)
        dot == IF DotPositions(b) = {} THEN Len(b) + 1 ELSE CHOOSE p \in DotPositions(b) : TRUE
        whole == SubSeq(b, 1, dot - 1)
        frac == SubSeq(SubSeq(b, dot + 1, Len(b)) \o <<"0", "0", "0">>, 1, 3)
        mag == DigitsVal(whole) * 1000 + DigitsVal(frac)
    IN Num(IF s[1] = "-" THEN -mag ELSE mag)

\* float(v): Exc stands for the TypeError / ValueError
Float(v) ==
    CASE v.k = "num" -> v
      [] v.k = "bool" -> Num(v.n * 1000)
      [] v.k = "str" -> IF IsFloatText(v.s) THEN FloatOfText(v.s) ELSE Exc
      [] OTHER -> Exc

\* seq[0]: the first element of a list, the first symbol of a text; a dict has
\* no key 0 (KeyError) and other values are not subscriptable (TypeError)
First(v) ==
    CASE v.k = "list" /\ v.l # <<>> -> v.l[1]
      [] v.k = "str" /\ v.s # <<>> -> Str(<<v.s[1]>>)
      [] OTHER -> Exc

(***************************************************************************)
(* remove_geometry_from_geojson                                            *)
(***************************************************************************)
FEATURE_COLLECTION == Word("FeatureCollection")
FEATURE == Word("Feature")

RECURSIVE StripDicts(_)
\* [{k: v for k, v in f.items() if k != "geometry"} for f in l if isinstance(f, dict)]
StripDicts(l) ==
    IF l = <<>> THEN <<>>
    ELSE (IF IsDict(Head(l)) THEN <<Without(Head(l), "geometry")>> ELSE <<>>)
         \o StripDicts(Tail(l))

\* the loop over obj.get("features", []): a text or a dict iterates over texts,
\* none of them a dict; None, a number or a boolean is not iterable
StripFeatures(fs) ==
    CASE fs.k = "list" -> List(StripDicts(fs.l))
      [] fs.k \in {"str", "obj"} -> List(<<>>)
      [] OTHER -> Exc

remove_geometry_from_geojson(obj) ==
    IF ~IsDict(obj) THEN obj
    ELSE IF Get(obj, "type", None) = FEATURE_COLLECTION THEN
        LET feats == StripFeatures(Get(obj, "features", List(<<>>))) IN
        IF feats = Exc THEN Exc
        ELSE Obj([type |-> FEATURE_COLLECTION, features |-> feats])
    ELSE IF Get(obj, "type", None) = FEATURE THEN Without(obj, "geometry")
    ELSE obj

(***************************************************************************)
(* parse_incendios_summary                                                 *)
(***************************************************************************)
MITECO == Word("MITECO")

\* props.get(k1) or props.get(k2) or ...
RECURSIVE OrChain(_, _)
OrChain(props, keys) ==
    IF Len(keys) = 1 THEN Get(props, keys[1], None)
    ELSE Or(Get(props, keys[1], None), OrChain(props, Tail(keys)))

MunicipioKeys == <<"municipio", "MUNICIPIO", "name", "NAMEUNIT", "NOMBRE">>
FreqKeys == <<"frecuencia", "N_INCENDIOS", "num_incendios">>

\* lines 118-131: the level of a frequency, None when there is none
incendios_nivel(freq) ==
    IF freq = None THEN None
    ELSE LET f == Float(freq) IN
         IF f = Exc THEN None
         ELSE IF IsZero(f) THEN Word("ninguno")
         ELSE IF Lt(f, Int1000(5)) THEN Word("bajo")
         ELSE IF Lt(f, Int1000(20)) THEN Word("medio")
         ELSE Word("alto")

\* lines 106-140, on the feature collection fc the summary is read from
incendios_from_fc(fc) ==
    LET feats == IF IsDict(fc) THEN Get(fc, "features", List(<<>>)) ELSE List(<<>>) IN
    IF ~Truthy(feats) THEN Obj([resumen |-> Word("sin_datos"), fuente |-> MITECO])
    ELSE IF ~IsDict(First(feats)) THEN Exc
    ELSE LET props == Get(First(feats), "properties", First(feats)) IN
         IF ~IsDict(props) THEN Exc
         ELSE LET municipio == OrChain(props, MunicipioKeys)
                  freq == OrChain(props, FreqKeys)
                  nivel == incendios_nivel(freq)
              IN IF Truthy(nivel)
                 THEN Obj([fuente |-> MITECO, municipio |-> municipio,
                           riesgo_incendios |-> nivel, frecuencia_aprox |-> freq,
                           props |-> props])
                 ELSE Obj([fuente |-> MITECO, municipio |-> municipio,
                           riesgo_incendios |-> Word("desconocido"), props |-> props])

parse_incendios_summary(obj) ==
    IF ~IsDict(obj) \/ Truthy(Get(obj, "error", None))
    THEN Obj([resumen |-> Word("desconocido"), fuente |-> MITECO, raw |-> obj])
    ELSE LET fc == remove_geometry_from_geojson(obj) IN
         IF fc = Exc THEN Exc ELSE incendios_from_fc(fc)

(***************************************************************************)
(* inundable_from_gray                                                     *)
(***************************************************************************)
\* -3.4028234663852886e+38 = -(2^24 - 1) * 2^104
NODATA == BigNum(-16777215)

\* a normalizer that takes 'inundable' to need GRAY_INDEX > 0
gray_level_positive(g) ==
    IF IsZero(g) THEN Word("no_inundable")
    ELSE IF Within1e6(g, NODATA) \/ Lt(g, Num(0)) THEN Word("nodata")
    ELSE Word("inundable")

\* lines 160-164 and 166-170, on a float g
gray_level(g) ==
    IF IsZero(g) THEN Word("no_inundable")
    ELSE IF Within1e6(g, NODATA) THEN Word("nodata")
    ELSE Word("inundable")

inundable_from_gray(fc) ==
    IF ~IsDict(fc) THEN Word("nodata")
    ELSE LET feats == Get(fc, "features", List(<<>>)) IN
         IF ~Truthy(feats) THEN Word("nodata")
         ELSE IF ~IsDict(First(feats)) THEN Word("nodata")
         ELSE LET props == Get(First(feats), "properties", EmptyDict) IN
              IF ~IsDict(props) THEN Word("nodata")
              ELSE LET gray == Get(props, "GRAY_INDEX", None) IN
                   IF gray = None THEN Word("nodata")
                   ELSE IF gray.k \in {"num", "bool"} THEN gray_level(Float(gray))
                   ELSE IF Float(gray) = Exc THEN Word("nodata")
                   ELSE gray_level(Float(gray))

(***************************************************************************)
(* parse_sismico_summary                                                   *)
(***************************************************************************)
PgaKeys == <<"PGA", "pga", "aceleracion", "ACCEL", "amax">>
DESCONOCIDO == Obj([riesgo_sismico |-> Word("desconocido")])

\* lines 186-193: the first key of the dict props, in the order of keys, whose
\* value float() accepts; None when there is none
RECURSIVE first_pga(_, _)
first_pga(props, keys) ==
    IF keys = <<>> THEN None
    ELSE IF Has(props, Head(keys)) /\ Float(props.o[Head(keys)]) # Exc
         THEN Float(props.o[Head(keys)])
         ELSE first_pga(props, Tail(keys))

\* a classifier whose lower boundary is exclusive: 0.04 itself is low
sismico_nivel_exclusive(pga) ==
    IF ~Lt(Num(40), pga) THEN Word("bajo")
    ELSE IF Lt(pga, Num(80)) THEN Word("medio")
    ELSE Word("alto")

\* lines 196-201
sismico_nivel(pga) ==
    IF Lt(pga, Num(40)) THEN Word("bajo")
    ELSE IF Lt(pga, Num(80)) THEN Word("medio")
    ELSE Word("alto")

\* lines 182-202, on the feature collection fc the summary is read from. On a
\* text or a list props, "key in props" is evaluated and props[key] raises
\* inside the inner try; on any other non-dict it raises to the outer one.
sismico_from_fc(fc) ==
    IF ~IsDict(fc) THEN DESCONOCIDO
    ELSE LET feats == Get(fc, "features", List(<<>>)) IN
         IF ~Truthy(feats) THEN DESCONOCIDO
         ELSE IF ~IsDict(First(feats)) THEN DESCONOCIDO
         ELSE LET props == Get(First(feats), "properties", First(feats)) IN
              IF ~IsDict(props) THEN DESCONOCIDO
              ELSE LET pga == first_pga(props, PgaKeys) IN
                   IF pga = None THEN DESCONOCIDO
                   ELSE Obj([pga |-> pga, riesgo_sismico |-> sismico_nivel(pga)])

parse_sismico_summary(obj) ==
    LET fc == remove_geometry_from_geojson(obj) IN
    IF fc = Exc THEN DESCONOCIDO ELSE sismico_from_fc(fc)

(***************************************************************************)
(* to_webmercator and build_gfi_url. The projected point is never looked   *)
(* at again except inside a bbox text, so only whether math.log raises is  *)
(* kept: tan(pi/4 + lat*pi/360) is 0.0 at lat = -90 and negative below it  *)
(* and above 90 (at 90 the float tangent is 1.6e16). A URL is the record   *)
(* of the parameters it is formatted from; a bbox is named by its axis     *)
(* order and half window.                                                  *)
(***************************************************************************)
to_webmercator(la, lo) ==
    IF la <= -90 \/ la > 90 THEN Exc ELSE Word("x,y")

build_gfi_url(wms_url, layer, bbox, crs, info_format, styles, vendor_params) ==
    [wms_url |-> wms_url, layer |-> layer, bbox |-> bbox, crs |-> crs,
     info_format |-> info_format, styles |-> styles, vendor_params |-> vendor_params]

MITECO_WMS == "https://wms.mapama.gob.es/sig/Biodiversidad/Incendios/2006_2015"
IDEE_WMS == "https://servicios.idee.es/wms-inspire/riesgos-naturales/inundaciones"
IGN_WMS == "https://www.ign.es/wms-inspire/geofisica"

incendios_url(bbox, crs, info_format) ==
    build_gfi_url(MITECO_WMS, "NZ.HazardArea", bbox, crs, info_format,
                  "Biodiversidad_Incendios", "")

\* a cascade that tries EPSG:4326 before CRS:84
incendios_urls_swapped ==
    << incendios_url("lat,lon +-0.20", "EPSG:4326", "application/json"),
       incendios_url("lat,lon +-0.20", "EPSG:4326", "text/html"),
       incendios_url("lon,lat +-0.20", "CRS:84", "application/json"),
       incendios_url("lon,lat +-0.20", "CRS:84", "text/html"),
       incendios_url("lon,lat +-0.20", "CRS:84", "text/plain"),
       incendios_url("x,y +-15000", "EPSG:3857", "application/json"),
       incendios_url("x,y +-15000", "EPSG:3857", "text/html") >>

incendios_urls ==
    << incendios_url("lon,lat +-0.20", "CRS:84", "application/json"),
       incendios_url("lon,lat +-0.20", "CRS:84", "text/html"),
       incendios_url("lon,lat +-0.20", "CRS:84", "text/plain"),
       incendios_url("lat,lon +-0.20", "EPSG:4326", "application/json"),
       incendios_url("lat,lon +-0.20", "EPSG:4326", "text/html"),
       incendios_url("x,y +-15000", "EPSG:3857", "application/json"),
       incendios_url("x,y +-15000", "EPSG:3857", "text/html") >>

url_fluvial(periodo) ==
    build_gfi_url(IDEE_WMS, "NZ.Flood.Fluvial" \o periodo, "lon,lat +-0.02", "CRS:84",
                  "application/json", "", "FI_TOLERANCE")

url_marina(periodo) ==
    build_gfi_url(IDEE_WMS, "NZ.Flood.Marina" \o periodo, "lon,lat +-0.02", "CRS:84",
                  "application/json", "", "FI_TOLERANCE")

url_sismico ==
    build_gfi_url(IGN_WMS, "HazardArea2002.NCSE-02", "lon,lat +-0.02", "CRS:84",
                  "application/json", "", "")

\* the calls of fetch_any that fetch_all_risks makes, in program order: the
\* key (and period) the result is stored under and the candidate list
Cascades ==
    << [key |-> "incendios", periodo |-> "", urls |-> incendios_urls],
       [key |-> "inundacion_fluvial", periodo |-> "T10", urls |-> <<url_fluvial("T10")>>],
       [key |-> "inundacion_fluvial", periodo |-> "T100", urls |-> <<url_fluvial("T100")>>],
       [key |-> "inundacion_fluvial", periodo |-> "T500", urls |-> <<url_fluvial("T500")>>],
       [key |-> "inundacion_marina", periodo |-> "T100", urls |-> <<url_marina("T100")>>],
       [key |-> "inundacion_marina", periodo |-> "T500", urls |-> <<url_marina("T500")>>],
       [key |-> "sismico", periodo |-> "", urls |-> <<url_sismico>>] >>

(***************************************************************************)
(* fetch_any, one loop iteration at a time                                 *)
(***************************************************************************)
\* a fetch_any that reports an unparsable body as a failure
fetch_any_success_strict(r) ==
    IF r.parses THEN r.json ELSE Obj([error |-> r.text])

\* lines 67-70: a response with a success status
fetch_any_success(r) ==
    IF r.parses THEN r.json ELSE Obj([raw |-> r.text])

\* a fetch_any that keeps the first failure instead of the last
fetch_any_failed_first(err, msg) == IF err = None THEN Str(msg) ELSE err

\* line 72: last_err after a failure with message msg
fetch_any_failed(err, msg) == Str(msg)

\* line 73
fetch_any_exhausted(err) == Obj([error |-> Or(err, Word("unknown error"))])

(***************************************************************************)
(* api_risk_clean, lines 330-355, on the dict raw of fetch_all_risks       *)
(***************************************************************************)
\* {k: inundable_from_gray(v) for k, v in d.items()}
inundable_items(d) == Obj([x \in DOMAIN d.o |-> inundable_from_gray(d.o[x])])
\* {k: remove_geometry_from_geojson(v) for k, v in d.items()}
remove_geometry_items(d) == Obj([x \in DOMAIN d.o |-> remove_geometry_from_geojson(d.o[x])])
AnyExc(d) == \E x \in DOMAIN d.o : d.o[x] = Exc

Response(status, body) == [status |-> status, body |-> body]
NoResponse == Response(0, None)
Response500 == Response(500, Obj([error |-> Word("str(e)")]))

api_risk_clean_body(la, lo, raw) ==
    LET inf == Get(raw, "inundacion_fluvial", EmptyDict)
        im == Get(raw, "inundacion_marina", EmptyDict)
        resumen == Obj([incendios |-> parse_incendios_summary(Get(raw, "incendios", EmptyDict)),
                        inundacion_fluvial |-> inundable_items(inf),
                        inundacion_marina |-> inundable_items(im),
                        sismico |-> parse_sismico_summary(Get(raw, "sismico", EmptyDict))])
        sin_geometria ==
            Obj([incendios |-> remove_geometry_from_geojson(Get(raw, "incendios", EmptyDict)),
                 inundacion_fluvial |-> remove_geometry_items(inf),
                 inundacion_marina |-> remove_geometry_items(im),
                 sismico |-> remove_geometry_from_geojson(Get(raw, "sismico", EmptyDict))])
    IN IF \/ AnyExc(resumen)
          \/ AnyExc(sin_geometria)
          \/ AnyExc(sin_geometria.o["inundacion_fluvial"])
          \/ AnyExc(sin_geometria.o["inundacion_marina"])
       THEN Response500
       ELSE Response(200, Obj([lat |-> Int1000(la), lon |-> Int1000(lo),
                               resumen |-> resumen, sin_geometria |-> sin_geometria]))

(***************************************************************************)
(* What the upstream services may answer                                   *)
(***************************************************************************)
Feat(props) == Obj([type |-> FEATURE, geometry |-> Word("POINT"), properties |-> props])
FC(feats) == Obj([type |-> FEATURE_COLLECTION, features |-> List(feats)])
Props1(key, v) == Obj([x \in {key} |-> v])

\* str(e) of a failed GET: httpx timeouts carry an empty message, a status
\* error names the URL it is for
Messages(url) ==
    {<<>>, <<"503 Service Unavailable for url", url.layer, url.crs, url.info_format,
             url.vendor_params>>}

IncendiosBodies ==
    { FC(<<Feat(Props1("frecuencia", Int1000(7)))>>),
      FC(<<Feat(None)>>),
      FC(<<>>) }
FloodBodies ==
    { FC(<<Feat(Props1("GRAY_INDEX", Int1000(0)))>>),
      FC(<<Feat(Props1("GRAY_INDEX", Int1000(1)))>>) }
SismicoBodies ==
    { FC(<<Feat(Props1("PGA", Num(50)))>>),
      FC(<<None, Feat(Props1("PGA", Num(90)))>>) }
OtherBodies == { FC(<<>>), List(<<>>) }

Bodies(url) ==
    CASE url.wms_url = MITECO_WMS -> IncendiosBodies
      [] url.wms_url = IDEE_WMS -> FloodBodies
      [] url.wms_url = IGN_WMS -> SismicoBodies
      [] OTHER -> OtherBodies

\* the responses with a success status: a body r.json() parses, or one it does not
Responses(url) ==
    {[parses |-> TRUE, json |-> b, text |-> Word("{...}")] : b \in Bodies(url)}
    \cup {[parses |-> FALSE, json |-> Exc, text |-> Word("<html>")]}

(***************************************************************************)
(* State                                                                   *)
(***************************************************************************)
VARIABLES
    pc,         \* where the program is
    lat, lon,   \* the query point, whole degrees
    job,        \* the call of fetch_any fetch_all_risks is in (index into Cascades), 0: none
    urls,       \* fetch_any: its argument
    i,          \* fetch_any: the position of the for loop in urls
    last_err,   \* fetch_any: last_err
    requested,  \* history: the URLs this call of fetch_any has sent a GET for, in order
    outcomes,   \* history: how each of them ended ("fail", "json", "text")
    ret,        \* what fetch_any returned
    results,    \* fetch_all_risks: results; Exc once it has raised
    stored,     \* history: what each finished call of fetch_any returned, by job
    response,   \* what api_risk_clean answered
    fn, arg, res \* a normalizer applied on its own: which, its argument, its result

vars == <<pc, lat, lon, job, urls, i, last_err, requested, outcomes, ret, results,
          stored, response, fn, arg, res>>

frame == <<urls, i, last_err, requested, outcomes, ret>>
pure == <<fn, arg, res>>

MaxUrls == 4
Lats == {-90, 40}
Lons == {-3}

TestUrl(n) ==
    build_gfi_url("test", "layer", "bbox", "CRS:84", "application/json", "", ToString(n))

(***************************************************************************)
(* The arguments the normalizers are applied to on their own               *)
(***************************************************************************)
MaxKeys == 2
MaxText == 3

Range(seq) == {seq[j] : j \in 1..Len(seq)}
TextAlphabet == {"0", "5", ".", "-", "x"}
Texts == UNION {[1..m -> TextAlphabet] : m \in 0..MaxText}

\* the dicts with at most MaxKeys of the keys, and values among vals
PropsOver(keys, vals) ==
    UNION {{Obj(f) : f \in [S -> vals]} : S \in {T \in SUBSET keys : Cardinality(T) <= MaxKeys}}

\* the shapes a body that carries the properties p comes in
Shapes(p) ==
    { FC(<<Feat(p)>>),
      FC(<<Put(Put(p, "type", FEATURE), "geometry", Word("POINT"))>>),
      FC(<<None, Feat(p)>>),
      FC(<<Feat(p), Feat(EmptyDict)>>),
      Obj([features |-> List(<<Feat(p)>>)]),
      Obj([features |-> List(<<None, Feat(p)>>)]),
      Feat(p) }

\* the results that carry no properties
Shapeless ==
    { Obj([error |-> Word("unknown error")]),
      Obj([raw |-> Word("<html>")]),
      FC(<<>>),
      Obj([type |-> FEATURE_COLLECTION]),
      Obj([type |-> FEATURE_COLLECTION, features |-> None]),
      Obj([features |-> Int1000(1)]),
      Obj([features |-> Word("text")]),
      EmptyDict, None, List(<<>>), Word("text"),
      FC(<<Feat(None)>>),
      FC(<<Feat(Word("text"))>>),
      FC(<<Feat(List(<<>>))>>),
      FC(<<Obj([type |-> FEATURE, geometry |-> Word("POINT")])>>),
      FC(<<Word("text")>>) }

FreqVals ==
    { None, Num(0), Num(4999), Int1000(5), Int1000(7), Num(19999), Int1000(20),
      Str(<<"0">>), Str(<<"7">>), Str(<<>>), Word("x") }
PgaVals ==
    { None, Num(39), Num(40), Num(79), Num(80), Bool(TRUE),
      Str(<<"0", ".", "0", "5">>), Word("x") }
GrayVals ==
    { None, Num(0), Num(1), Int1000(1), Num(-1), Int1000(-9999), Bool(FALSE), Bool(TRUE),
      NODATA, BigNum(NODATA.big - 1), BigNum(NODATA.big + 1),
      Str(<<"x">>), List(<<>>), EmptyDict }

\* every shape around one probed key, the plain shape around several keys
IncendiosArgs ==
    Shapeless
    \cup UNION {Shapes(Props1("frecuencia", v)) : v \in FreqVals}
    \cup {FC(<<Feat(p)>>) : p \in PropsOver(Range(FreqKeys) \cup {"municipio"}, FreqVals)}
GrayArgs ==
    Shapeless
    \cup UNION {Shapes(Props1("GRAY_INDEX", v)) : v \in GrayVals}
    \cup {FC(<<Feat(Props1("GRAY_INDEX", Str(t)))>>) : t \in Texts}
    \cup {FC(<<Feat(p)>>) : p \in PropsOver({"GRAY_INDEX", "gray_index"}, {None, Num(0), Num(1)})}
SismicoArgs ==
    Shapeless
    \cup UNION {Shapes(Props1("PGA", v)) : v \in PgaVals}
    \cup {FC(<<Feat(Props1("PGA", Str(t)))>>) : t \in Texts}
    \cup {FC(<<Feat(p)>>) : p \in PropsOver(Range(PgaKeys), PgaVals)}

\* a request to /api/risk_clean has arrived
Init ==
    /\ pc = "idle"
    /\ lat \in Lats /\ lon \in Lons
    /\ job = 0 /\ urls = <<>> /\ i = 1 /\ last_err = None
    /\ requested = <<>> /\ outcomes = <<>> /\ ret = None
    /\ results = EmptyDict /\ stored = <<>>
    /\ response = NoResponse
    /\ fn = "" /\ arg = None /\ res = None

\* fetch_any has been called on its own with a list of candidates
InitFetch ==
    /\ pc = "fetch"
    /\ lat = 0 /\ lon = 0
    /\ job = 0
    /\ \E n \in 0..MaxUrls : urls = [j \in 1..n |-> TestUrl(j)]
    /\ i = 1 /\ last_err = None
    /\ requested = <<>> /\ outcomes = <<>> /\ ret = None
    /\ results = EmptyDict /\ stored = <<>>
    /\ response = NoResponse
    /\ fn = "" /\ arg = None /\ res = None

(***************************************************************************)
(* fetch_any                                                               *)
(***************************************************************************)
\* lines 65-66 and 71-72: the GET of urls[i] fails (timeout, connection error
\* or raise_for_status on a non-2xx status)
GetFails ==
    /\ pc = "fetch" /\ i <= Len(urls)
    /\ \E msg \in Messages(urls[i]) :
        /\ last_err' = fetch_any_failed(last_err, msg)
        /\ outcomes' = Append(outcomes, [st |-> "fail", msg |-> Str(msg), r |-> None])
    /\ requested' = Append(requested, urls[i])
    /\ i' = i + 1
    /\ UNCHANGED <<pc, lat, lon, job, urls, ret, results, stored, response, pure>>

\* lines 65-70: the GET of urls[i] answers with a success status
GetSucceeds ==
    /\ pc = "fetch" /\ i <= Len(urls)
    /\ \E r \in Responses(urls[i]) :
        /\ ret' = fetch_any_success(r)
        /\ outcomes' = Append(outcomes, [st |-> IF r.parses THEN "json" ELSE "text",
                                         msg |-> None,
                                         r |-> IF r.parses THEN r.json ELSE r.text])
    /\ requested' = Append(requested, urls[i])
    /\ pc' = "returned"
    /\ UNCHANGED <<lat, lon, job, urls, i, last_err, results, stored, response, pure>>

\* line 73: the loop is over
Exhausted ==
    /\ pc = "fetch" /\ i > Len(urls)
    /\ ret' = fetch_any_exhausted(last_err)
    /\ pc' = "returned"
    /\ UNCHANGED <<lat, lon, job, urls, i, last_err, requested, outcomes, results,
                   stored, response, pure>>

(***************************************************************************)
(* fetch_all_risks                                                         *)
(***************************************************************************)
\* results[key] = v, or results[key][periodo] = v
Store(d, c, v) ==
    IF c.periodo = "" THEN Put(d, c.key, v)
    ELSE Put(d, c.key, Put(d.o[c.key], c.periodo, v))

\* lines 277 and 286: results[key] = {} before the first period of a flood hazard
Prepare(d, c) ==
    IF c.periodo # "" /\ ~Has(d, c.key) THEN Put(d, c.key, EmptyDict) ELSE d

\* lines 216-266: the bounding boxes, then the first call of fetch_any;
\* api_risk_clean catches what to_webmercator raises (line 354)
Start ==
    /\ pc = "idle"
    /\ IF to_webmercator(lat, lon) = Exc
       THEN /\ results' = Exc
            /\ response' = Response500
            /\ pc' = "done"
            /\ UNCHANGED <<job, frame>>
       ELSE /\ results' = EmptyDict
            /\ job' = 1
            /\ urls' = Cascades[1].urls
            /\ i' = 1 /\ last_err' = None
            /\ requested' = <<>> /\ outcomes' = <<>>
            /\ pc' = "fetch"
            /\ UNCHANGED <<ret, response>>
    /\ UNCHANGED <<lat, lon, stored, pure>>

\* lines 266-303: fetch_any has returned; its result is stored and the next
\* call is made, or fetch_all_risks returns
Continue ==
    /\ pc = "returned" /\ job >= 1
    /\ stored' = Append(stored, ret)
    /\ IF job < Len(Cascades)
       THEN /\ results' = Prepare(Store(results, Cascades[job], ret), Cascades[job + 1])
            /\ job' = job + 1
            /\ urls' = Cascades[job + 1].urls
            /\ i' = 1 /\ last_err' = None
            /\ requested' = <<>> /\ outcomes' = <<>>
            /\ pc' = "fetch"
       ELSE /\ results' = Store(results, Cascades[job], ret)
            /\ pc' = "fetched"
            /\ UNCHANGED <<job, urls, i, last_err, requested, outcomes>>
    /\ UNCHANGED <<lat, lon, ret, response, pure>>

\* api_risk_clean, lines 330-355
Respond ==
    /\ pc = "fetched"
    /\ response' = api_risk_clean_body(lat, lon, results)
    /\ pc' = "done"
    /\ UNCHANGED <<lat, lon, job, frame, results, stored, pure>>

Next == Start \/ GetFails \/ GetSucceeds \/ Exhausted \/ Continue \/ Respond
Spec == Init /\ [][Next]_vars

NextFetch == GetFails \/ GetSucceeds \/ Exhausted
SpecFetch == InitFetch /\ [][NextFetch]_vars

(***************************************************************************)
(* A normalizer applied on its own                                         *)
(***************************************************************************)
InitNorm ==
    /\ pc = "pure"
    /\ lat = 0 /\ lon = 0
    /\ job = 0 /\ urls = <<>> /\ i = 1 /\ last_err = None
    /\ requested = <<>> /\ outcomes = <<>> /\ ret = None
    /\ results = EmptyDict /\ stored = <<>>
    /\ response = NoResponse
    /\ \/ fn = "parse_incendios_summary" /\ arg \in IncendiosArgs
       \/ fn = "inundable_from_gray" /\ arg \in GrayArgs
       \/ fn = "parse_sismico_summary" /\ arg \in SismicoArgs
    /\ res = None

ApplyIncendios ==
    /\ pc = "pure" /\ fn = "parse_incendios_summary"
    /\ res' = parse_incendios_summary(arg)
    /\ pc' = "applied"
    /\ UNCHANGED <<lat, lon, job, frame, results, stored, response, fn, arg>>

ApplyGray ==
    /\ pc = "pure" /\ fn = "inundable_from_gray"
    /\ res' = inundable_from_gray(arg)
    /\ pc' = "applied"
    /\ UNCHANGED <<lat, lon, job, frame, results, stored, response, fn, arg>>

ApplySismico ==
    /\ pc = "pure" /\ fn = "parse_sismico_summary"
    /\ res' = parse_sismico_summary(arg)
    /\ pc' = "applied"
    /\ UNCHANGED <<lat, lon, job, frame, results, stored, response, fn, arg>>

NextNorm == ApplyIncendios \/ ApplyGray \/ ApplySismico
SpecNorm == InitNorm /\ [][NextNorm]_vars

(***************************************************************************)
(* Properties                                                              *)
(***************************************************************************)
AllFailed == \A j \in 1..Len(outcomes) : outcomes[j].st = "fail"
LastOutcome == outcomes[Len(outcomes)]

\* C1: in fetch_any the candidates requested so far are the first ones of the
\* list, once each and in list order; every one but the last has failed; and
\* when candidate k answers with a success status fetch_any has returned its
\* parsed JSON, or {raw: text} when the body does not parse, and nothing after k
\* is ever requested.
C1_FirstSuccessWins ==
    /\ Len(requested) <= Len(urls)
    /\ requested = SubSeq(urls, 1, Len(requested))
    /\ Len(outcomes) = Len(requested)
    /\ \A j \in 1..(Len(outcomes) - 1) : outcomes[j].st = "fail"
    /\ \A k \in 1..Len(outcomes) :
          outcomes[k].st # "fail" =>
              /\ pc = "returned"
              /\ Len(requested) = k
              /\ outcomes[k].st = "json" => ret = outcomes[k].r
              /\ outcomes[k].st = "text" => ret = Obj([raw |-> outcomes[k].r])

\* a candidate in the middle of the list is the first to succeed, with a body
\* that does not parse
C1_Witness ==
    /\ pc = "returned"
    /\ Len(requested) >= 2 /\ Len(requested) < Len(urls)
    /\ LastOutcome.st = "text"
    /\ ret = Obj([raw |-> Word("<html>")])

\* C2 as stated: when every candidate fails, fetch_any returns {error: m} with m
\* the failure message of the last candidate tried.
C2_LastMessage ==
    (pc = "returned" /\ outcomes # <<>> /\ AllFailed)
        => ret = Obj([error |-> LastOutcome.msg])

\* C2, amended: when every candidate fails, fetch_any returns {error: m} with m
\* the failure message of the last candidate tried when that message is not
\* empty, and the text "unknown error" when it is empty or the list is empty;
\* earlier messages are discarded.
C2_LastMessageOrUnknown ==
    (pc = "returned" /\ AllFailed)
        => ret = Obj([error |-> IF outcomes # <<>> /\ LastOutcome.msg # Str(<<>>)
                                THEN LastOutcome.msg
                                ELSE Word("unknown error")])

\* several candidates failed with different messages, the last one not empty
C2_Witness ==
    /\ pc = "returned" /\ AllFailed
    /\ Len(outcomes) >= 2
    /\ LastOutcome.msg # Str(<<>>)
    /\ outcomes[1].msg # Str(<<>>)
    /\ outcomes[1].msg # LastOutcome.msg
    /\ ret = Obj([error |-> LastOutcome.msg])

CrsRank(crs) ==
    CASE crs = "CRS:84" -> 1
      [] crs = "EPSG:4326" -> 2
      [] crs = "EPSG:3857" -> 3
      [] OTHER -> 4
IsJsonFormat(u) == u.info_format = "application/json"
HigherPriority(u, v) ==
    \/ CrsRank(u.crs) < CrsRank(v.crs)
    \/ u.crs = v.crs /\ IsJsonFormat(u) /\ ~IsJsonFormat(v)

\* C4: while fetch_all_risks runs the wildfire cascade, the first request is
\* CRS:84 in JSON, a candidate is requested only after every candidate of an
\* earlier CRS, and the JSON candidate of its own CRS, has been requested and
\* has failed, and an exhausted cascade has tried each of CRS:84, EPSG:4326 and
\* EPSG:3857 in JSON and in a text format.
C4_WildfireOrder ==
    job = 1 =>
        /\ requested # <<>> => requested[1].crs = "CRS:84" /\ IsJsonFormat(requested[1])
        /\ \A j \in 1..Len(requested) : \A u \in Range(urls) :
              HigherPriority(u, requested[j]) =>
                  \E m \in 1..(j - 1) : requested[m] = u /\ outcomes[m].st = "fail"
        /\ (pc = "returned" /\ AllFailed) =>
              \A crs \in {"CRS:84", "EPSG:4326", "EPSG:3857"} :
                  /\ \E m \in 1..Len(requested) :
                        requested[m].crs = crs /\ IsJsonFormat(requested[m])
                  /\ \E m \in 1..Len(requested) :
                        requested[m].crs = crs /\ ~IsJsonFormat(requested[m])

\* the last candidate of the wildfire cascade, EPSG:3857 in HTML, is reached
\* and answers
C4_Witness ==
    /\ job = 1 /\ pc = "returned"
    /\ Len(requested) = 7
    /\ LastOutcome.st # "fail"
    /\ requested[7].crs = "EPSG:3857" /\ ~IsJsonFormat(requested[7])

\* the first element of the feature list of a raw result, when it is a mapping
HasFirstFeature(raw) ==
    /\ IsDict(raw) /\ Has(raw, "features")
    /\ raw.o["features"].k = "list" /\ raw.o["features"].l # <<>>
    /\ IsDict(raw.o["features"].l[1])
FirstFeature(raw) == raw.o["features"].l[1]

\* the GRAY_INDEX of the first feature of a flood result; None when the result
\* has no first feature, no properties mapping or no such field
GrayIndex(raw) ==
    IF HasFirstFeature(raw) /\ IsDict(Get(FirstFeature(raw), "properties", EmptyDict))
    THEN Get(Get(FirstFeature(raw), "properties", EmptyDict), "GRAY_INDEX", None)
    ELSE None
Numeric(v) == Float(v) # Exc
EqualsZero(v) == Numeric(v) /\ IsZero(Float(v))
IsSentinel(v) == Numeric(v) /\ Float(v) = BigNum(-16777215)
GrayApplied == pc = "applied" /\ fn = "inundable_from_gray"

PgaPriority == <<"PGA", "pga", "aceleracion", "ACCEL", "amax">>
SismicoApplied == pc = "applied" /\ fn = "parse_sismico_summary"
SismicoLevel(summary) == Get(summary, "riesgo_sismico", None)

\* C7: parse_sismico_summary always answers with a level; on a result whose
\* first feature is a mapping with a properties mapping it takes the PGA from
\* the first of PGA, pga, aceleracion, ACCEL, amax whose value converts to a
\* number, and answers low below 0.04, medium from 0.04 to below 0.08 and high
\* from 0.08; with no such key, or an empty feature list, it answers unknown.
C7_PgaLevel ==
    SismicoApplied =>
        /\ IsDict(res)
        /\ SismicoLevel(res) \in {Word("bajo"), Word("medio"), Word("alto"), Word("desconocido")}
        /\ (IsDict(arg) /\ Get(arg, "features", None) = List(<<>>))
              => SismicoLevel(res) = Word("desconocido")
        /\ (HasFirstFeature(arg) /\ IsDict(Get(FirstFeature(arg), "properties", None))) =>
              LET props == FirstFeature(arg).o["properties"]
                  usable == {j \in 1..Len(PgaPriority) :
                                /\ Has(props, PgaPriority[j])
                                /\ Numeric(props.o[PgaPriority[j]])}
              IN IF usable = {} THEN SismicoLevel(res) = Word("desconocido")
                 ELSE LET first == CHOOSE j \in usable : \A m \in usable : j <= m
                          pga == Float(props.o[PgaPriority[first]])
                      IN /\ Get(res, "pga", None) = pga
                         /\ Lt(pga, Num(40)) => SismicoLevel(res) = Word("bajo")
                         /\ (~Lt(pga, Num(40)) /\ Lt(pga, Num(80)))
                               => SismicoLevel(res) = Word("medio")
                         /\ ~Lt(pga, Num(80)) => SismicoLevel(res) = Word("alto")

\* the key PGA carries no number and the key pga carries 0.04 itself
C7_Witness ==
    /\ SismicoApplied
    /\ arg = FC(<<Feat(Obj([PGA |-> Word("x"), pga |-> Num(40)]))>>)
    /\ res = Obj([pga |-> Num(40), riesgo_sismico |-> Word("medio")])

FreqPriority == <<"frecuencia", "N_INCENDIOS", "num_incendios">>
IncendiosApplied == pc = "applied" /\ fn = "parse_incendios_summary"
IncendiosLevel(summary) ==
    IF ~IsDict(summary) THEN summary
    ELSE Get(summary, "riesgo_incendios", Get(summary, "resumen", None))
ZeroFrequency(v) == v.k \in {"num", "str"} /\ EqualsZero(v)

\* C9: on a result whose first feature is a mapping with a properties mapping,
\* parse_incendios_summary answers none (ninguno) when the first probed key
\* present carries a frequency of 0, as a number or as numeric text, and
\* answers unknown (desconocido) only when no probed key carries a number.
C9_ZeroIsNotUnknown ==
    (IncendiosApplied /\ HasFirstFeature(arg)
        /\ IsDict(Get(FirstFeature(arg), "properties", None))) =>
        LET props == FirstFeature(arg).o["properties"]
            present == {j \in 1..Len(FreqPriority) : Has(props, FreqPriority[j])}
        IN /\ (/\ present # {}
               /\ ZeroFrequency(props.o[FreqPriority[
                      CHOOSE j \in present : \A m \in present : j <= m]]))
                 => IncendiosLevel(res) = Word("ninguno")
           /\ IncendiosLevel(res) = Word("desconocido")
                 => \A j \in present : ~Numeric(props.o[FreqPriority[j]])

Fetched == pc \in {"fetched", "done"}

\* C3: once fetch_all_risks is over it has returned, not raised, a result with
\* exactly the entries incendios, inundacion_fluvial (T10, T100, T500),
\* inundacion_marina (T100, T500) and sismico, each holding what its own
\* cascade returned: an Error value exactly where that cascade was exhausted.
C3_EveryEntryItsOwnCascade ==
    Fetched =>
        /\ results # Exc
        /\ DOMAIN results.o = {"incendios", "inundacion_fluvial", "inundacion_marina", "sismico"}
        /\ DOMAIN results.o["inundacion_fluvial"].o = {"T10", "T100", "T500"}
        /\ DOMAIN results.o["inundacion_marina"].o = {"T100", "T500"}
        /\ Len(stored) = 7
        /\ results.o["incendios"] = stored[1]
        /\ results.o["inundacion_fluvial"].o["T10"] = stored[2]
        /\ results.o["inundacion_fluvial"].o["T100"] = stored[3]
        /\ results.o["inundacion_fluvial"].o["T500"] = stored[4]
        /\ results.o["inundacion_marina"].o["T100"] = stored[5]
        /\ results.o["inundacion_marina"].o["T500"] = stored[6]
        /\ results.o["sismico"] = stored[7]

Summary == response.body.o["resumen"]
GrayIs(raw, v) == HasFirstFeature(raw) /\ GrayIndex(raw) = v
PropertyIs(raw, key, v) ==
    /\ HasFirstFeature(raw)
    /\ IsDict(Get(FirstFeature(raw), "properties", None))
    /\ Get(FirstFeature(raw).o["properties"], key, None) = v

\* C5: when the wildfire result carries a frequency of 7, every flood result a
\* GRAY_INDEX of 0 and the seismic result a PGA of 0.05, api_risk_clean answers
\* wildfire low (bajo), every flood period not-flooded and seismic medium.
C5_EndToEnd ==
    (/\ pc = "done" /\ results # Exc
     /\ PropertyIs(results.o["incendios"], "frecuencia", Int1000(7))
     /\ \A t \in {"T10", "T100", "T500"} :
           GrayIs(results.o["inundacion_fluvial"].o[t], Int1000(0))
     /\ \A t \in {"T100", "T500"} :
           GrayIs(results.o["inundacion_marina"].o[t], Int1000(0))
     /\ PropertyIs(results.o["sismico"], "PGA", Num(50)))
    => /\ response.status = 200
       /\ IncendiosLevel(Summary.o["incendios"]) = Word("bajo")
       /\ Summary.o["inundacion_fluvial"] =
              Obj([T10 |-> Word("no_inundable"), T100 |-> Word("no_inundable"),
                   T500 |-> Word("no_inundable")])
       /\ Summary.o["inundacion_marina"] =
              Obj([T100 |-> Word("no_inundable"), T500 |-> Word("no_inundable")])
       /\ SismicoLevel(Summary.o["sismico"]) = Word("medio")

\* a raw result with nothing to read the probed keys from: an Error or RawText
\* value, an empty feature list, or a first feature whose properties are null,
\* no mapping, or a mapping in which every probed key is absent or null
NothingToRead(raw, keys) ==
    /\ IsDict(raw)
    /\ \/ Truthy(Get(raw, "error", None))
       \/ Has(raw, "raw")
       \/ Get(raw, "features", None) = List(<<>>)
       \/ /\ HasFirstFeature(raw)
          /\ Has(FirstFeature(raw), "properties")
          /\ LET props == FirstFeature(raw).o["properties"] IN
             IsDict(props) => \A key \in keys : Get(props, key, None) = None

\* C8: when every raw result of a request has nothing to read the probed field
\* from, api_risk_clean answers 200 with the unknown / no-data level for every
\* hazard, never a whole-request error.
C8_MissingFieldIsNoFailure ==
    (/\ pc = "done" /\ results # Exc
     /\ NothingToRead(results.o["incendios"], Range(FreqPriority))
     /\ \A t \in {"T10", "T100", "T500"} :
           NothingToRead(results.o["inundacion_fluvial"].o[t], {"GRAY_INDEX"})
     /\ \A t \in {"T100", "T500"} :
           NothingToRead(results.o["inundacion_marina"].o[t], {"GRAY_INDEX"})
     /\ NothingToRead(results.o["sismico"], Range(PgaPriority)))
    => /\ response.status = 200
       /\ IncendiosLevel(Summary.o["incendios"]) \in {Word("desconocido"), Word("sin_datos")}
       /\ \A t \in {"T10", "T100", "T500"} :
             Summary.o["inundacion_fluvial"].o[t] = Word("nodata")
       /\ \A t \in {"T100", "T500"} :
             Summary.o["inundacion_marina"].o[t] = Word("nodata")
       /\ SismicoLevel(Summary.o["sismico"]) = Word("desconocido")

\* the features of a value of the sin_geometria tree
FeaturesOf(v) ==
    IF IsDict(v) /\ Get(v, "type", None) = FEATURE_COLLECTION /\ Has(v, "features")
    THEN Range(v.o["features"].l) ELSE {}
\* the summary parse_incendios_summary gives when it reads the raw payload itself
IncendiosOfOriginal(raw) ==
    IF ~IsDict(raw) \/ Truthy(Get(raw, "error", None))
    THEN parse_incendios_summary(raw)
    ELSE incendios_from_fc(raw)

\* C10: in an answer of api_risk_clean the wildfire and seismic levels are the
\* ones their normalizers read from the raw payload of the fetcher, not from
\* its geometry-stripped copy, and in the sin_geometria tree every feature of
\* the raw payload is there without its geometry field and with all its others.
C10_NormalizersReadOriginal ==
    (pc = "done" /\ response.status = 200) =>
        /\ IncendiosLevel(Summary.o["incendios"])
              = IncendiosLevel(IncendiosOfOriginal(results.o["incendios"]))
        /\ SismicoLevel(Summary.o["sismico"])
              = SismicoLevel(sismico_from_fc(results.o["sismico"]))
        /\ \A key \in {"incendios", "sismico"} :
              FeaturesOf(response.body.o["sin_geometria"].o[key])
                  = {Without(f, "geometry") :
                        f \in {g \in FeaturesOf(results.o[key]) : IsDict(g)}}

====
